---- MODULE Spec2Model ----
(***************************************************************************)
(* Tic-tac-toe room server: the express router built by tttFactory (rooms  *)
(* kept in games.json through loadRooms/saveRoom, moves validated and      *)
(* applied by the makeMove handler, winners found by checkWinner) and the  *)
(* websocket hub gameConnections that pushes room states to observers.     *)
(*                                                                         *)
(* Every HTTP handler and every websocket callback is synchronous          *)
(* (fs.readFileSync / fs.writeFileSync, no await), so Node runs each of    *)
(* them to completion: one action per handler.                             *)
(***************************************************************************)
EXTENDS Integers, Sequences, FiniteSets, TLC

\* ---------------------------------------------------------------- bounds
\* Number of room identifiers uuidv4 hands out in a run.
MaxRooms == 2
\* Number of websocket connections that can be live at the same time.
MaxConns == 2

RoomIds == 1..MaxRooms
Conns == 1..MaxConns

\* ----------------------------------------------------------------- types
\* req.body.gameId missing (undefined): the falsy room id of the reset handler.
NoId == 0

\* type Cell = Player | null
Players == {"X", "O"}
CellValues == Players \cup {"null"}
Cells == 0..8

\* board: [null, null, null, null, null, null, null, null, null]
EmptyBoard == [i \in Cells |-> "null"]

\* Variant of FreshState: O moves first.
FreshStateOFirst ==
    [board |-> [i \in 0..8 |-> "null"], currentPlayer |-> "O", won |-> FALSE]

\* const boardState: GameState = { board: [null x 9], currentPlayer: "X", won: false }
FreshState == [board |-> EmptyBoard, currentPlayer |-> "X", won |-> FALSE]

\* A JSON value of req.body.position: a number, kept as twice its value so that
\* halves (0.5, 4.5, ...) are representable, or anything that is not a number
\* (undefined, a string, null).
Num(n) == [type |-> "number", twice |-> 2 * n]
Half(n) == [type |-> "number", twice |-> 2 * n + 1]
NotANumber == [type |-> "undefined", twice |-> 0]

\* Number.isInteger(position)
IsInteger(position) == position.type = "number" /\ position.twice % 2 = 0

\* The array index an integer position denotes.
Index(position) == position.twice \div 2

\* ------------------------------------------------------------- variables
VARIABLES
    store,            \* games.json: room id -> GameState
    issued,           \* room ids uuidv4 has generated so far
    gameConnections,  \* Map<string, Set<WebSocket>>: room id -> connections
    readyState,       \* ws.readyState of every connection
    connRoom,         \* gameId captured by the callbacks of a connection
    sent,             \* ws.send calls of the last handler, per connection
    writes,           \* fs.writeFileSync calls of the last handler
    acked,            \* per room: moves answered 200 since its create/reset
    last              \* the last request or event and its response

vars == <<store, issued, gameConnections, readyState, connRoom, sent, writes,
          acked, last>>

\* ------------------------------------------------------------ storage.ts
\* loadRooms(): the parsed content of games.json.
loadRooms == store

\* Variant of saveRoom: a write that throws leaves an empty store behind.
saveRoomTruncates(rooms, ok) == IF ok THEN rooms ELSE <<>>

\* saveRoom(rooms): games.json after the call; writeFileSync either replaces
\* the file (ok) or throws, which is caught and logged (the file is kept).
saveRoom(rooms, ok) == IF ok THEN rooms ELSE store

\* ----------------------------------------------------------- checkWinner
dirs ==
    << <<0, 1, 2>>, <<3, 4, 5>>, <<6, 7, 8>>,
       <<0, 3, 6>>, <<1, 4, 7>>, <<2, 5, 8>>,
       <<0, 4, 8>>, <<2, 4, 6>> >>

\* Variant of checkWinner: a line of three equal cells wins, empty or not.
checkWinnerAnyEqual(board) ==
    \E i \in 1..Len(dirs) :
        LET path == dirs[i]
            first == board[path[1]]
        IN  \A k \in 1..Len(path) : board[path[k]] = first

checkWinner(board) ==
    \E i \in 1..Len(dirs) :
        LET path == dirs[i]
            first == board[path[1]]
        IN  /\ first # "null"
            /\ \A k \in 1..Len(path) : board[path[k]] = first

\* ------------------------------------------------------------- responses
NoRoom == [none |-> TRUE]
NoPosition == [type |-> "none", twice |-> 0]

Response(op, gameId, position, status, error, room, games) ==
    [op |-> op, gameId |-> gameId, position |-> position, status |-> status,
     error |-> error, room |-> room, games |-> games]

NoSends == [c \in Conns |-> <<>>]

\* JSON.stringify({ type: "gameUpdate", room })
GameUpdate(room) == [type |-> "gameUpdate", room |-> room]

\* Variant of broadcastGameUpdate: readyState is not looked at.
broadcastToAll(gameId, room) ==
    [c \in Conns |->
        IF /\ gameId \in DOMAIN gameConnections
           /\ c \in gameConnections[gameId]
        THEN <<GameUpdate(room)>>
        ELSE <<>>]

\* ----------------------------------------------------- broadcastGameUpdate
\* The ws.send calls of broadcastGameUpdate(gameId, room), per connection.
broadcastGameUpdate(gameId, room) ==
    [c \in Conns |->
        IF /\ gameId \in DOMAIN gameConnections
           /\ c \in gameConnections[gameId]
           /\ readyState[c] = "OPEN"
        THEN <<GameUpdate(room)>>
        ELSE <<>>]

\* ------------------------------------------------------------------ Init
Init ==
    /\ store = <<>>
    /\ issued = {}
    /\ gameConnections = <<>>
    /\ readyState = [c \in Conns |-> "FRESH"]
    /\ connRoom = [c \in Conns |-> NoId]
    /\ sent = NoSends
    /\ writes = 0
    /\ acked = [g \in RoomIds |-> {}]
    /\ last = Response("none", NoId, NoPosition, 0, "", NoRoom, {})

hub == <<gameConnections, readyState, connRoom>>

\* Variant of Create: the new room is saved without the rooms loaded.
CreateReplacesStore(roomId, ok) ==
    /\ roomId \in RoomIds \ issued
    /\ LET rooms2 == [g \in {roomId} |-> FreshState]
       IN  /\ store' = saveRoom(rooms2, ok)
           /\ writes' = 1
           /\ issued' = issued \cup {roomId}
           /\ acked' = [acked EXCEPT ![roomId] = {}]
           /\ sent' = NoSends
           /\ last' = Response("create", roomId, NoPosition, 200, "", NoRoom, {})
    /\ UNCHANGED hub

\* ------------------------------------------------------ POST /api/create
Create(roomId, ok) ==
    /\ roomId \in RoomIds \ issued
    /\ LET rooms == loadRooms
           rooms2 == [g \in DOMAIN rooms \cup {roomId} |->
                         IF g = roomId THEN FreshState ELSE rooms[g]]
       IN  /\ store' = saveRoom(rooms2, ok)
           /\ writes' = 1
           /\ issued' = issued \cup {roomId}
           /\ acked' = [acked EXCEPT ![roomId] = {}]
           /\ sent' = NoSends
           /\ last' = Response("create", roomId, NoPosition, 200, "", NoRoom, {})
    /\ UNCHANGED hub

\* ------------------------------------------------- GET /api/games (list)
\* Variant of roomSummary: the entries hold the id and the board only.
roomSummaryBoardsOnly(rooms) ==
    { [room |-> g, board |-> rooms[g].board] : g \in DOMAIN rooms }

\* Object.entries(rooms).map(([roomId, roomData]) => ({ room, board, ... }))
roomSummary(rooms) ==
    { [room |-> g, board |-> rooms[g].board,
       currentPlayer |-> rooms[g].currentPlayer, won |-> rooms[g].won] :
      g \in DOMAIN rooms }

ListGames ==
    /\ last' = Response("list", NoId, NoPosition, 200, "", NoRoom,
                        roomSummary(loadRooms))
    /\ sent' = NoSends
    /\ writes' = 0
    /\ UNCHANGED <<store, issued, acked, hub>>

\* ---------------------------------------------------- GET /api/games/:id
GetGame(gameId) ==
    /\ LET rooms == loadRooms
       IN  IF gameId \notin DOMAIN rooms
           THEN last' = Response("get", gameId, NoPosition, 404,
                                 "Game not found", NoRoom, {})
           ELSE last' = Response("get", gameId, NoPosition, 200, "",
                                 rooms[gameId], {})
    /\ sent' = NoSends
    /\ writes' = 0
    /\ UNCHANGED <<store, issued, acked, hub>>

\* ------------------------------------------- POST /api/makeMove/:gameId
\* Variant of MoveError: the won check comes last.
MoveErrorWonLast(game, position) ==
    IF ~IsInteger(position) THEN "Position must be an integer"
    ELSE IF position.twice < 0 \/ position.twice > 2 * 8
         THEN "Position must be between 0 and 8"
    ELSE IF game.board[Index(position)] # "null"
         THEN "Position is already occupied"
    ELSE IF game.won THEN "Game already won"
    ELSE ""

\* Variant of MoveError: the range check comes before the integer check.
MoveErrorRangeFirst(game, position) ==
    IF game.won THEN "Game already won"
    ELSE IF position.type = "number"
            /\ (position.twice < 0 \/ position.twice > 2 * 8)
         THEN "Position must be between 0 and 8"
    ELSE IF ~IsInteger(position) THEN "Position must be an integer"
    ELSE IF game.board[Index(position)] # "null"
         THEN "Position is already occupied"
    ELSE ""

\* Variant of MoveError: the chain without its won check.
MoveErrorNoWon(game, position) ==
    IF ~IsInteger(position) THEN "Position must be an integer"
    ELSE IF position.twice < 0 \/ position.twice > 2 * 8
         THEN "Position must be between 0 and 8"
    ELSE IF game.board[Index(position)] # "null"
         THEN "Position is already occupied"
    ELSE ""

\* Variant of MoveError: the chain without its occupied-cell check.
MoveErrorNoOccupied(game, position) ==
    IF game.won THEN "Game already won"
    ELSE IF ~IsInteger(position) THEN "Position must be an integer"
    ELSE IF position.twice < 0 \/ position.twice > 2 * 8
         THEN "Position must be between 0 and 8"
    ELSE ""

\* The if / else-if chain of the handler: the first error that applies, or
\* "" (error stays undefined).
MoveError(game, position) ==
    IF game.won THEN "Game already won"
    ELSE IF ~IsInteger(position) THEN "Position must be an integer"
    ELSE IF position.twice < 0 \/ position.twice > 2 * 8
         THEN "Position must be between 0 and 8"
    ELSE IF game.board[Index(position)] # "null"
         THEN "Position is already occupied"
    ELSE ""

\* Variant of ApplyMove: won is computed before the mark is placed.
ApplyMoveStaleWon(game, position) ==
    LET board == [game.board EXCEPT ![Index(position)] = game.currentPlayer]
    IN  [board |-> board,
         currentPlayer |-> IF game.currentPlayer = "X" THEN "O" ELSE "X",
         won |-> checkWinner(game.board)]

\* Variant of ApplyMove: the player to move is not flipped.
ApplyMoveNoFlip(game, position) ==
    LET board == [game.board EXCEPT ![Index(position)] = game.currentPlayer]
    IN  [board |-> board,
         currentPlayer |-> game.currentPlayer,
         won |-> checkWinner(board)]

\* Variant of ApplyMove: the cell is compared with the player instead of
\* being assigned, so the board stays as loaded.
ApplyMoveNoPlace(game, position) ==
    [board |-> game.board,
     currentPlayer |-> IF game.currentPlayer = "X" THEN "O" ELSE "X",
     won |-> checkWinner(game.board)]

\* Variant of ApplyMove: the mark is placed on a new empty board instead of
\* the loaded one.
ApplyMoveFreshBoard(game, position) ==
    LET board == [EmptyBoard EXCEPT ![Index(position)] = game.currentPlayer]
    IN  [board |-> board,
         currentPlayer |-> IF game.currentPlayer = "X" THEN "O" ELSE "X",
         won |-> checkWinner(board)]

\* game.board[position] = game.currentPlayer; the player flips; won is
\* recomputed from the new board.
ApplyMove(game, position) ==
    LET board == [game.board EXCEPT ![Index(position)] = game.currentPlayer]
    IN  [board |-> board,
         currentPlayer |-> IF game.currentPlayer = "X" THEN "O" ELSE "X",
         won |-> checkWinner(board)]

\* Variant of makeMove: the 400 branch does not return before saveRoom and
\* broadcastGameUpdate.
makeMoveNoReturn(rooms, gameId, position) ==
    IF gameId \notin DOMAIN rooms
    THEN [status |-> 404, error |-> "Game not found", room |-> NoRoom,
          rooms |-> rooms, save |-> FALSE, broadcast |-> FALSE]
    ELSE LET game == rooms[gameId]
             error == MoveError(game, position)
         IN  IF error # ""
             THEN [status |-> 400, error |-> error, room |-> NoRoom,
                   rooms |-> rooms, save |-> TRUE, broadcast |-> TRUE]
             ELSE LET game2 == ApplyMove(game, position)
                  IN  [status |-> 200, error |-> "", room |-> game2,
                       rooms |-> [rooms EXCEPT ![gameId] = game2],
                       save |-> TRUE, broadcast |-> TRUE]

\* Variant of makeMove: the mapping left for saveRoom holds the moved room
\* alone.
makeMoveSavesOneRoom(rooms, gameId, position) ==
    IF gameId \notin DOMAIN rooms
    THEN [status |-> 404, error |-> "Game not found", room |-> NoRoom,
          rooms |-> rooms, save |-> FALSE, broadcast |-> FALSE]
    ELSE LET game == rooms[gameId]
             error == MoveError(game, position)
         IN  IF error # ""
             THEN [status |-> 400, error |-> error, room |-> NoRoom,
                   rooms |-> rooms, save |-> FALSE, broadcast |-> FALSE]
             ELSE LET game2 == ApplyMove(game, position)
                  IN  [status |-> 200, error |-> "", room |-> game2,
                       rooms |-> [g \in {gameId} |-> game2],
                       save |-> TRUE, broadcast |-> TRUE]

\* The handler on the loaded mapping: the response, the mapping it leaves in
\* rooms, and whether it reaches saveRoom and broadcastGameUpdate.
makeMove(rooms, gameId, position) ==
    IF gameId \notin DOMAIN rooms
    THEN [status |-> 404, error |-> "Game not found", room |-> NoRoom,
          rooms |-> rooms, save |-> FALSE, broadcast |-> FALSE]
    ELSE LET game == rooms[gameId]
             error == MoveError(game, position)
         IN  IF error # ""
             THEN [status |-> 400, error |-> error, room |-> NoRoom,
                   rooms |-> rooms, save |-> FALSE, broadcast |-> FALSE]
             ELSE LET game2 == ApplyMove(game, position)
                  IN  [status |-> 200, error |-> "", room |-> game2,
                       rooms |-> [rooms EXCEPT ![gameId] = game2],
                       save |-> TRUE, broadcast |-> TRUE]

MakeMove(gameId, position, ok) ==
    LET rooms == loadRooms
        r == makeMove(rooms, gameId, position)
    IN  /\ store' = IF r.save THEN saveRoom(r.rooms, ok) ELSE store
        /\ writes' = IF r.save THEN 1 ELSE 0
        /\ sent' = IF r.broadcast
                   THEN broadcastGameUpdate(gameId, r.rooms[gameId])
                   ELSE NoSends
        /\ acked' = IF r.status = 200
                    THEN [acked EXCEPT ![gameId] = @ \cup
                            {<<Index(position), rooms[gameId].currentPlayer>>}]
                    ELSE acked
        /\ last' = Response("makeMove", gameId, position, r.status, r.error,
                            r.room, {})
        /\ UNCHANGED <<issued, hub>>

\* Variant of Reset: the handler without its broadcastGameUpdate call.
ResetNoBroadcast(roomId, ok) ==
    IF roomId = NoId
    THEN /\ last' = Response("reset", roomId, NoPosition, 400,
                             "roomId is required", NoRoom, {})
         /\ sent' = NoSends
         /\ writes' = 0
         /\ UNCHANGED <<store, issued, acked, hub>>
    ELSE LET rooms == loadRooms
         IN  IF roomId \notin DOMAIN rooms
             THEN /\ last' = Response("reset", roomId, NoPosition, 404,
                                      "Game not found", NoRoom, {})
                  /\ sent' = NoSends
                  /\ writes' = 0
                  /\ UNCHANGED <<store, issued, acked, hub>>
             ELSE LET rooms2 == [rooms EXCEPT ![roomId] = FreshState]
                  IN  /\ store' = saveRoom(rooms2, ok)
                      /\ writes' = 1
                      /\ sent' = NoSends
                      /\ acked' = [acked EXCEPT ![roomId] = {}]
                      /\ last' = Response("reset", roomId, NoPosition, 200, "",
                                          rooms2[roomId], {})
                      /\ UNCHANGED <<issued, hub>>

\* Variant of Reset: only the board of the room is emptied.
ResetBoardOnly(roomId, ok) ==
    IF roomId = NoId
    THEN /\ last' = Response("reset", roomId, NoPosition, 400,
                             "roomId is required", NoRoom, {})
         /\ sent' = NoSends
         /\ writes' = 0
         /\ UNCHANGED <<store, issued, acked, hub>>
    ELSE LET rooms == loadRooms
         IN  IF roomId \notin DOMAIN rooms
             THEN /\ last' = Response("reset", roomId, NoPosition, 404,
                                      "Game not found", NoRoom, {})
                  /\ sent' = NoSends
                  /\ writes' = 0
                  /\ UNCHANGED <<store, issued, acked, hub>>
             ELSE LET rooms2 == [rooms EXCEPT ![roomId].board = EmptyBoard]
                  IN  /\ store' = saveRoom(rooms2, ok)
                      /\ writes' = 1
                      /\ sent' = broadcastGameUpdate(roomId, rooms2[roomId])
                      /\ acked' = [acked EXCEPT ![roomId] = {}]
                      /\ last' = Response("reset", roomId, NoPosition, 200, "",
                                          rooms2[roomId], {})
                      /\ UNCHANGED <<issued, hub>>

\* ------------------------------------------------------- POST /api/reset
Reset(roomId, ok) ==
    IF roomId = NoId
    THEN /\ last' = Response("reset", roomId, NoPosition, 400,
                             "roomId is required", NoRoom, {})
         /\ sent' = NoSends
         /\ writes' = 0
         /\ UNCHANGED <<store, issued, acked, hub>>
    ELSE LET rooms == loadRooms
         IN  IF roomId \notin DOMAIN rooms
             THEN /\ last' = Response("reset", roomId, NoPosition, 404,
                                      "Game not found", NoRoom, {})
                  /\ sent' = NoSends
                  /\ writes' = 0
                  /\ UNCHANGED <<store, issued, acked, hub>>
             ELSE LET rooms2 == [rooms EXCEPT ![roomId] = FreshState]
                  IN  /\ store' = saveRoom(rooms2, ok)
                      /\ writes' = 1
                      /\ sent' = broadcastGameUpdate(roomId, rooms2[roomId])
                      /\ acked' = [acked EXCEPT ![roomId] = {}]
                      /\ last' = Response("reset", roomId, NoPosition, 200, "",
                                          rooms2[roomId], {})
                      /\ UNCHANGED <<issued, hub>>

\* Variant of Delete: the entry of the room is dropped from the hub too.
DeleteDetaches(gameId, ok) ==
    LET rooms == loadRooms
    IN  IF gameId \notin DOMAIN rooms
        THEN /\ last' = Response("delete", gameId, NoPosition, 404,
                                 "Game not found", NoRoom, {})
             /\ sent' = NoSends
             /\ writes' = 0
             /\ UNCHANGED <<store, issued, acked, hub>>
        ELSE LET rooms2 == [g \in DOMAIN rooms \ {gameId} |-> rooms[g]]
             IN  /\ store' = saveRoom(rooms2, ok)
                 /\ writes' = 1
                 /\ sent' = NoSends
                 /\ acked' = [acked EXCEPT ![gameId] = {}]
                 /\ gameConnections' =
                       [g \in DOMAIN gameConnections \ {gameId} |->
                          gameConnections[g]]
                 /\ last' = Response("delete", gameId, NoPosition, 200,
                                     "Game deleted", NoRoom, {})
                 /\ UNCHANGED <<issued, readyState, connRoom>>

\* Variant of Delete: the rooms are not saved after the removal.
DeleteNoSave(gameId, ok) ==
    LET rooms == loadRooms
    IN  IF gameId \notin DOMAIN rooms
        THEN /\ last' = Response("delete", gameId, NoPosition, 404,
                                 "Game not found", NoRoom, {})
             /\ sent' = NoSends
             /\ writes' = 0
             /\ UNCHANGED <<store, issued, acked, hub>>
        ELSE /\ writes' = 0
             /\ sent' = NoSends
             /\ acked' = [acked EXCEPT ![gameId] = {}]
             /\ last' = Response("delete", gameId, NoPosition, 200,
                                 "Game deleted", NoRoom, {})
             /\ UNCHANGED <<store, issued, hub>>

\* ------------------------------------------- DELETE /api/games/:gameId
Delete(gameId, ok) ==
    LET rooms == loadRooms
    IN  IF gameId \notin DOMAIN rooms
        THEN /\ last' = Response("delete", gameId, NoPosition, 404,
                                 "Game not found", NoRoom, {})
             /\ sent' = NoSends
             /\ writes' = 0
             /\ UNCHANGED <<store, issued, acked, hub>>
        ELSE LET rooms2 == [g \in DOMAIN rooms \ {gameId} |-> rooms[g]]
             IN  /\ store' = saveRoom(rooms2, ok)
                 /\ writes' = 1
                 /\ sent' = NoSends
                 /\ acked' = [acked EXCEPT ![gameId] = {}]
                 /\ last' = Response("delete", gameId, NoPosition, 200,
                                     "Game deleted", NoRoom, {})
                 /\ UNCHANGED <<issued, hub>>

\* ------------------------------------------ app.ws /api/games/:gameId/ws
\* Variant of Attach: the room is not sent to the new connection.
AttachNoPush(c, gameId) ==
    /\ readyState[c] = "FRESH"
    /\ LET conns == IF gameId \in DOMAIN gameConnections
                    THEN gameConnections[gameId] ELSE {}
       IN  gameConnections' =
              [g \in DOMAIN gameConnections \cup {gameId} |->
                  IF g = gameId THEN conns \cup {c} ELSE gameConnections[g]]
    /\ sent' = NoSends
    /\ readyState' = [readyState EXCEPT ![c] = "OPEN"]
    /\ connRoom' = [connRoom EXCEPT ![c] = gameId]
    /\ last' = Response("attach", gameId, NoPosition, 0, "", NoRoom, {})
    /\ writes' = 0
    /\ UNCHANGED <<store, issued, acked>>

\* A new connection c (OPEN when express-ws hands it to the handler) for
\* gameId: registered under gameId, sent the room if the store has it, and
\* its close and error callbacks installed.
Attach(c, gameId) ==
    /\ readyState[c] = "FRESH"
    /\ LET rooms == loadRooms
           conns == IF gameId \in DOMAIN gameConnections
                    THEN gameConnections[gameId] ELSE {}
       IN  /\ gameConnections' =
                [g \in DOMAIN gameConnections \cup {gameId} |->
                    IF g = gameId THEN conns \cup {c} ELSE gameConnections[g]]
           /\ sent' = IF gameId \in DOMAIN rooms
                      THEN [NoSends EXCEPT ![c] = <<GameUpdate(rooms[gameId])>>]
                      ELSE NoSends
    /\ readyState' = [readyState EXCEPT ![c] = "OPEN"]
    /\ connRoom' = [connRoom EXCEPT ![c] = gameId]
    /\ last' = Response("attach", gameId, NoPosition, 0, "", NoRoom, {})
    /\ writes' = 0
    /\ UNCHANGED <<store, issued, acked>>

\* The ws library moves a connection OPEN -> CLOSING when a close handshake
\* starts; no callback of the router runs.
Closing(c) ==
    /\ readyState[c] = "OPEN"
    /\ readyState' = [readyState EXCEPT ![c] = "CLOSING"]
    /\ sent' = NoSends
    /\ last' = Response("closing", connRoom[c], NoPosition, 0, "", NoRoom, {})
    /\ writes' = 0
    /\ UNCHANGED <<store, issued, acked, gameConnections, connRoom>>

\* The socket of c is closed: readyState becomes CLOSED.
Closed(c) ==
    /\ readyState[c] \in {"OPEN", "CLOSING"}
    /\ readyState' = [readyState EXCEPT ![c] = "CLOSED"]
    /\ sent' = NoSends
    /\ last' = Response("closed", connRoom[c], NoPosition, 0, "", NoRoom, {})
    /\ writes' = 0
    /\ UNCHANGED <<store, issued, acked, gameConnections, connRoom>>

\* Variant of OnClose: the empty set of a room is left in the map.
OnCloseKeepsEntry(c) ==
    /\ readyState[c] = "CLOSED"
    /\ LET gameId == connRoom[c]
       IN  gameConnections' =
             IF gameId \in DOMAIN gameConnections
             THEN [gameConnections EXCEPT ![gameId] = @ \ {c}]
             ELSE gameConnections
    /\ readyState' = [readyState EXCEPT ![c] = "FRESH"]
    /\ last' = Response("close", connRoom[c], NoPosition, 0, "", NoRoom, {})
    /\ connRoom' = [connRoom EXCEPT ![c] = NoId]
    /\ sent' = NoSends
    /\ writes' = 0
    /\ UNCHANGED <<store, issued, acked>>

\* ws.on("close", ...): the callback of a closed connection. Afterwards the
\* connection object is gone and its slot can carry a new connection.
OnClose(c) ==
    /\ readyState[c] = "CLOSED"
    /\ LET gameId == connRoom[c]
       IN  gameConnections' =
             IF gameId \in DOMAIN gameConnections
             THEN LET connections == gameConnections[gameId] \ {c}
                  IN  IF connections = {}
                      THEN [g \in DOMAIN gameConnections \ {gameId} |->
                               gameConnections[g]]
                      ELSE [gameConnections EXCEPT ![gameId] = connections]
             ELSE gameConnections
    /\ readyState' = [readyState EXCEPT ![c] = "FRESH"]
    /\ last' = Response("close", connRoom[c], NoPosition, 0, "", NoRoom, {})
    /\ connRoom' = [connRoom EXCEPT ![c] = NoId]
    /\ sent' = NoSends
    /\ writes' = 0
    /\ UNCHANGED <<store, issued, acked>>

\* Variant of OnError: the error callback removes the connection from the
\* hub, as the close callback does.
OnErrorDetaches(c) ==
    /\ readyState[c] \in {"OPEN", "CLOSING"}
    /\ LET gameId == connRoom[c]
           left == IF gameId \in DOMAIN gameConnections
                   THEN gameConnections[gameId] \ {c}
                   ELSE {}
       IN  gameConnections' =
             IF left = {}
             THEN [g \in DOMAIN gameConnections \ {gameId} |->
                     gameConnections[g]]
             ELSE [gameConnections EXCEPT ![gameId] = left]
    /\ last' = Response("error", connRoom[c], NoPosition, 0, "", NoRoom, {})
    /\ sent' = NoSends
    /\ writes' = 0
    /\ UNCHANGED <<store, issued, acked, readyState, connRoom>>

\* ws.on("error", ...): console.error only.
OnError(c) ==
    /\ readyState[c] \in {"OPEN", "CLOSING"}
    /\ last' = Response("error", connRoom[c], NoPosition, 0, "", NoRoom, {})
    /\ sent' = NoSends
    /\ writes' = 0
    /\ UNCHANGED <<store, issued, acked, hub>>

\* -------------------------------------------------------- specifications
\* Positions the clients of Spec send: the cells of the top row, a number
\* above the board, and a value that is no number.
SysPositions == {Num(0), Num(1), Num(2), Num(9), NotANumber}

\* Positions the client of SpecGame sends: every cell, the integers next to
\* the board, fractions inside and outside the board, and a value that is no
\* number.
AllPositions ==
    {Num(n) : n \in (0 - 1)..9} \cup {Half(0 - 1), Half(4), Half(9), NotANumber}

\* Spec: the HTTP routes on up to MaxRooms rooms, no observers; writes of
\* games.json succeed.
Next ==
    \/ \E g \in RoomIds : Create(g, TRUE)
    \/ ListGames
    \/ \E g \in RoomIds : GetGame(g)
    \/ \E g \in RoomIds, p \in SysPositions : MakeMove(g, p, TRUE)
    \/ \E g \in RoomIds \cup {NoId} : Reset(g, TRUE)
    \/ \E g \in RoomIds : Delete(g, TRUE)

Spec == Init /\ [][Next]_vars

\* SpecGame: one room played with every position, no observers; writes of
\* games.json succeed.
GameRoom == CHOOSE g \in RoomIds : \A h \in RoomIds : g <= h

NextGame ==
    \/ Create(GameRoom, TRUE)
    \/ GetGame(GameRoom)
    \/ \E p \in AllPositions : MakeMove(GameRoom, p, TRUE)
    \/ \E g \in {GameRoom, NoId} : Reset(g, TRUE)
    \/ Delete(GameRoom, TRUE)

SpecGame == Init /\ [][NextGame]_vars

\* The game of the test "detects a winner": X takes the top row.
WinningGame == <<0, 3, 1, 4, 2>>

\* Positions the clients of SpecWatch send: the next move of WinningGame
\* while the stored board of the room is a prefix of it, besides a cell that
\* is occupied after the first move, a number above the board, and a value
\* that is no number.
WatchPositions ==
    LET played == IF GameRoom \in DOMAIN store
                  THEN Cardinality({i \in Cells :
                                      store[GameRoom].board[i] # "null"})
                  ELSE Len(WinningGame)
    IN  {Num(0), Num(9), NotANumber} \cup
        (IF played < Len(WinningGame)
         THEN {Num(WinningGame[played + 1])} ELSE {})

\* SpecWatch: one room, played along WinningGame to a win, watched by
\* observers that attach under its id or under other ids; writes of
\* games.json succeed.
NextWatch ==
    \/ Create(GameRoom, TRUE)
    \/ ListGames
    \/ GetGame(GameRoom)
    \/ \E p \in WatchPositions : MakeMove(GameRoom, p, TRUE)
    \/ \E g \in {GameRoom, NoId} : Reset(g, TRUE)
    \/ Delete(GameRoom, TRUE)
    \/ \E c \in Conns, g \in RoomIds : Attach(c, g)
    \/ \E c \in Conns : Closing(c)
    \/ \E c \in Conns : Closed(c)
    \/ \E c \in Conns : OnClose(c)
    \/ \E c \in Conns : OnError(c)

SpecWatch == Init /\ [][NextWatch]_vars

\* SpecFair: Spec with the event loop serving requests for ever: a handler
\* that can run is not postponed for ever.
SpecFair == Spec /\ WF_vars(Next)

\* SpecWinner: checkWinner called once on any board of 9 cells, each cell
\* empty, X or O. The board is carried by the room of `last`, and the call
\* writes its result to the won field of that room.
Boards == [Cells -> CellValues]

InitWinner ==
    /\ store = <<>>
    /\ issued = {}
    /\ gameConnections = <<>>
    /\ readyState = [c \in Conns |-> "FRESH"]
    /\ connRoom = [c \in Conns |-> NoId]
    /\ sent = NoSends
    /\ writes = 0
    /\ acked = [g \in RoomIds |-> {}]
    /\ \E board \in Boards :
          last = Response("board", NoId, NoPosition, 0, "",
                          [board |-> board, currentPlayer |-> "X",
                           won |-> FALSE], {})

CallCheckWinner ==
    /\ last.op = "board"
    /\ last' = Response("checkWinner", NoId, NoPosition, 0, "",
                        [last.room EXCEPT !.won = checkWinner(last.room.board)],
                        {})
    /\ UNCHANGED <<store, issued, hub, sent, writes, acked>>

NextWinner == CallCheckWinner

SpecWinner == InitWinner /\ [][NextWinner]_vars

\* SpecLobby: SpecWatch next to a second room, which is created, given the
\* first mark of a game, reset and deleted.
OtherRoom ==
    CHOOSE g \in RoomIds \ {GameRoom} : \A h \in RoomIds \ {GameRoom} : g <= h

NextLobby ==
    \/ NextWatch
    \/ Create(OtherRoom, TRUE)
    \/ MakeMove(OtherRoom, Num(0), TRUE)
    \/ Reset(OtherRoom, TRUE)
    \/ Delete(OtherRoom, TRUE)

SpecLobby == Init /\ [][NextLobby]_vars

\* SpecFault: one room played on the top row, no observers; every write of
\* games.json either succeeds or throws inside saveRoom.
NextFault ==
    \/ \E ok \in BOOLEAN : Create(GameRoom, ok)
    \/ GetGame(GameRoom)
    \/ \E p \in SysPositions, ok \in BOOLEAN : MakeMove(GameRoom, p, ok)
    \/ \E g \in {GameRoom, NoId}, ok \in BOOLEAN : Reset(g, ok)
    \/ \E ok \in BOOLEAN : Delete(GameRoom, ok)

SpecFault == Init /\ [][NextFault]_vars

\* ================================================================ claims
\* The 8 lines of the board, as sets of cells.
Lines ==
    { {0, 1, 2}, {3, 4, 5}, {6, 7, 8}, {0, 3, 6}, {1, 4, 7}, {2, 5, 8},
      {0, 4, 8}, {2, 4, 6} }

\* Some line of the board holds three identical marks.
UniformLine(board) ==
    \E L \in Lines : \E m \in Players : \A i \in L : board[i] = m

Marks(board) == {i \in Cells : board[i] # "null"}

Other(player) == IF player = "X" THEN "O" ELSE "X"

\* C1: in every reachable state, the won flag of every stored room is true
\* exactly when one of the 8 lines of its stored board holds three identical
\* marks.
C1_WonIsDerived ==
    \A g \in DOMAIN store : store[g].won = UniformLine(store[g].board)

\* A move has just completed a line: the stored flag is true.
C1_Witness ==
    /\ last.op = "makeMove" /\ last.status = 200
    /\ last.gameId \in DOMAIN store
    /\ store[last.gameId].won
    /\ UniformLine(store[last.gameId].board)

\* C2: while a stored room is won, every make-move on it is answered 400
\* "Game already won" and changes nothing, whatever the position; the flag
\* stays true over every step but a successful reset (or the delete) of that
\* room; a successful reset leaves the room not won, and the next move to a
\* cell of the board is accepted.
C2_WonRejectsUntilReset ==
    [][ /\ \A g \in DOMAIN store :
              store[g].won =>
                /\ (last'.op = "makeMove" /\ last'.gameId = g) =>
                      /\ last'.status = 400
                      /\ last'.error = "Game already won"
                      /\ store' = store
                      /\ sent' = NoSends
                /\ \/ g \in DOMAIN store' /\ store'[g].won
                   \/ /\ last'.op \in {"reset", "delete"}
                      /\ last'.gameId = g
                      /\ last'.status = 200
        /\ (last'.op = "reset" /\ last'.status = 200) =>
              /\ last'.gameId \in DOMAIN store'
              /\ ~store'[last'.gameId].won
        /\ ( /\ last.op = "reset" /\ last.status = 200
             /\ last'.op = "makeMove" /\ last'.gameId = last.gameId
             /\ last'.position \in {Num(n) : n \in Cells} ) =>
              last'.status = 200
      ]_vars

\* A won room has just rejected a move to a free cell of the board.
C2_Witness ==
    /\ last.op = "makeMove" /\ last.error = "Game already won"
    /\ last.gameId \in DOMAIN store
    /\ store[last.gameId].won
    /\ IsInteger(last.position)
    /\ Index(last.position) \in Cells \ Marks(store[last.gameId].board)

\* The answer the claimed order of checks gives to a move on a stored game.
ExpectedError(game, position) ==
    CASE game.won -> "Game already won"
      [] ~game.won /\ ~(position.type = "number" /\ position.twice % 2 = 0) ->
            "Position must be an integer"
      [] /\ ~game.won
         /\ position.type = "number" /\ position.twice % 2 = 0
         /\ position.twice \div 2 \notin Cells ->
            "Position must be between 0 and 8"
      [] /\ ~game.won
         /\ position.type = "number" /\ position.twice % 2 = 0
         /\ position.twice \div 2 \in Cells
         /\ game.board[position.twice \div 2] # "null" ->
            "Position is already occupied"
      [] OTHER -> ""

\* C3: a make-move on an absent room id answers 404 "Game not found"; on a
\* stored room it reports only the first failure in the order won, not an
\* integer, outside 0..8, occupied, and succeeds when none holds.
C3_ValidationOrder ==
    [][ last'.op = "makeMove" =>
          IF last'.gameId \notin DOMAIN store
          THEN last'.status = 404 /\ last'.error = "Game not found"
          ELSE LET expected == ExpectedError(store[last'.gameId],
                                             last'.position)
               IN  /\ last'.error = expected
                   /\ last'.status = IF expected = "" THEN 200 ELSE 400
      ]_vars

\* A won game has answered "Game already won" to a position that is no
\* integer.
C3_Witness ==
    /\ last.op = "makeMove" /\ last.error = "Game already won"
    /\ ~IsInteger(last.position)

\* C5: an accepted move at p stores the board with cell p set to the old
\* currentPlayer and every other cell unchanged, the other player to move,
\* and won recomputed from the new board; the response carries that state.
C5_AcceptedMove ==
    [][ (last'.op = "makeMove" /\ last'.status = 200) =>
          LET g == last'.gameId
              p == Index(last'.position)
          IN  /\ g \in DOMAIN store /\ g \in DOMAIN store'
              /\ p \in Cells
              /\ store'[g].board[p] = store[g].currentPlayer
              /\ \A i \in Cells \ {p} : store'[g].board[i] = store[g].board[i]
              /\ store'[g].currentPlayer = Other(store[g].currentPlayer)
              /\ store'[g].won = UniformLine(store'[g].board)
              /\ last'.room = store'[g]
      ]_vars

\* O has just moved: an accepted move by the second player.
C5_Witness ==
    /\ last.op = "makeMove" /\ last.status = 200
    /\ last.gameId \in DOMAIN store
    /\ store[last.gameId].board[Index(last.position)] = "O"
    /\ store[last.gameId].currentPlayer = "X"

\* The connections registered under a room id in the hub.
Registered(g) ==
    IF g \in DOMAIN gameConnections THEN gameConnections[g] ELSE {}

\* C4: a make-move answered 404 or 400 leaves the stored mapping as it was,
\* writes nothing to the store, sends nothing to any connection and leaves
\* the hub alone; a make-move has no other failure status.
C4_RejectedMoveNoEffect ==
    [][ last'.op = "makeMove" =>
          /\ last'.status \in {200, 400, 404}
          /\ last'.status \in {400, 404} =>
                /\ store' = store
                /\ writes' = 0
                /\ sent' = NoSends
                /\ UNCHANGED hub
      ]_vars

\* A move to an occupied cell has been rejected while an open observer was
\* registered under the room.
C4_Witness ==
    /\ last.op = "makeMove"
    /\ last.error = "Position is already occupied"
    /\ \E c \in Registered(last.gameId) : readyState[c] = "OPEN"

\* C6: every move answered with success since the last create, reset or
\* delete of its room has its mark on the stored board of that room.
C6_NoAcceptedMoveLost ==
    \A g \in DOMAIN store :
        \A m \in acked[g] : store[g].board[m[1]] = m[2]

\* Two moves were accepted on one room, then a request on another room was
\* served, and both marks are stored.
C6_Witness ==
    \E g \in DOMAIN store :
        /\ Cardinality(acked[g]) = 2
        /\ \A m \in acked[g] : store[g].board[m[1]] = m[2]
        /\ last.gameId \in RoomIds \ {g}
        /\ last.op \in {"create", "makeMove", "reset", "delete"}
        /\ last.status = 200

\* A move answered with success is missing from the stored board.
LostUpdate ==
    \E g \in DOMAIN store :
        \E m \in acked[g] : store[g].board[m[1]] # m[2]

TwoMovesAccepted == \E g \in DOMAIN store : Cardinality(acked[g]) >= 2

C8_BroadcastOncePerMutation ==
    [][ /\ ( /\ last'.op \in {"makeMove", "reset"}
             /\ last'.status = 200 ) =>
              \A c \in Conns :
                 sent'[c] =
                    IF c \in Registered(last'.gameId) /\ readyState[c] = "OPEN"
                    THEN <<GameUpdate(store'[last'.gameId])>>
                    ELSE <<>>
        /\ ( \/ last'.op \in {"get", "list", "create", "delete"}
             \/ last'.status \in {400, 404} ) =>
              sent' = NoSends
      ]_vars

\* A reset has just been broadcast to an open observer of the room.
C8_Witness ==
    /\ last.op = "reset" /\ last.status = 200
    /\ \E c \in Registered(last.gameId) :
          sent[c] = <<GameUpdate(FreshState)>>

\* C9: the broadcast of a successful move or reset on room g sends the one
\* message with the new state to each open connection under g; a closed or
\* closing connection under g gets nothing, stays registered, and the request
\* still succeeds; connections under other room ids get nothing.
C9_BroadcastTargets ==
    [][ ( /\ last'.op \in {"makeMove", "reset"}
          /\ last'.status = 200 ) =>
          LET g == last'.gameId
          IN  /\ \A c \in Registered(g) :
                    /\ readyState[c] = "OPEN" =>
                          sent'[c] = <<GameUpdate(last'.room)>>
                    /\ readyState[c] \in {"CLOSING", "CLOSED"} =>
                          sent'[c] = <<>>
              /\ \A h \in RoomIds \ {g} :
                    \A c \in Registered(h) \ Registered(g) : sent'[c] = <<>>
              /\ gameConnections' = gameConnections
              /\ readyState' = readyState
      ]_vars

\* A move was broadcast to an open observer while another connection under
\* the same room was closed or closing.
C9_Witness ==
    /\ last.op = "makeMove" /\ last.status = 200
    /\ \E c, d \in Registered(last.gameId) :
          /\ sent[c] # <<>>
          /\ readyState[d] \in {"CLOSING", "CLOSED"}
          /\ sent[d] = <<>>

\* C10: attaching a new connection to a room id the store holds registers it
\* under that id and sends it, and nobody else, the stored state of the room;
\* a connection that has not attached is never sent anything, so this is its
\* first message.
C10_AttachPushesState ==
    [][ /\ ( last'.op = "attach" /\ last'.gameId \in DOMAIN store ) =>
              \E c \in Conns :
                 /\ readyState[c] = "FRESH"
                 /\ last'.gameId \in DOMAIN gameConnections'
                 /\ c \in gameConnections'[last'.gameId]
                 /\ sent'[c] = <<GameUpdate(store[last'.gameId])>>
                 /\ \A d \in Conns \ {c} : sent'[d] = <<>>
                 /\ store' = store
        /\ \A c \in Conns : readyState[c] = "FRESH" /\ last'.op # "attach" =>
              sent'[c] = <<>>
      ]_vars

\* An observer has attached to a room with marks on its board and was sent
\* that state.
C10_Witness ==
    /\ last.op = "attach"
    /\ last.gameId \in DOMAIN store
    /\ Marks(store[last.gameId].board) # {}
    /\ \E c \in Registered(last.gameId) :
          sent[c] = <<GameUpdate(store[last.gameId])>>

\* C11 (as claimed): attaching a connection to a room id that the store does
\* not hold sends nothing and leaves the map of the hub unchanged.
C11_AttachAbsentNoOp ==
    [][ (last'.op = "attach" /\ last'.gameId \notin DOMAIN store) =>
          /\ sent' = NoSends
          /\ gameConnections' = gameConnections
      ]_vars

\* The connections a map of the hub holds under a room id.
RegisteredIn(connections, g) ==
    IF g \in DOMAIN connections THEN connections[g] ELSE {}

\* C12: the close callback of a connection removes that connection, and
\* nothing else, from the set of its room, and drops the entry of the room
\* when the set becomes empty; after every step the hub maps no room id to
\* an empty set.
C12_DetachCleansUp ==
    [][ /\ last'.op = "close" =>
              \E c \in Conns :
                 /\ readyState[c] = "CLOSED" /\ readyState'[c] = "FRESH"
                 /\ connRoom[c] = last'.gameId
                 /\ c \in Registered(connRoom[c])
                 /\ \A g \in RoomIds :
                       RegisteredIn(gameConnections', g) =
                          IF g = connRoom[c]
                          THEN Registered(g) \ {c}
                          ELSE Registered(g)
        /\ \A g \in DOMAIN gameConnections' : gameConnections'[g] # {}
      ]_vars

\* The last connection of a room has closed and the entry of the room is
\* gone, while another room still has an observer.
C12_Witness ==
    /\ last.op = "close"
    /\ last.gameId \notin DOMAIN gameConnections
    /\ DOMAIN gameConnections # {}

\* C13 (as claimed): after the close event of a connection, and after its
\* error event, the connection is no longer registered in the hub.
C13_RemovedOnCloseAndError ==
    [][ \A c \in Conns :
          (OnClose(c) \/ OnError(c)) =>
             c \notin RegisteredIn(gameConnections', connRoom[c])
      ]_vars

\* C13 (amended): the close event of a connection removes it from the hub;
\* its error event leaves the hub as it is, the connection still registered
\* under its room.
C13_RemovedOnCloseOnly ==
    [][ \A c \in Conns :
          /\ OnClose(c) =>
                c \notin RegisteredIn(gameConnections', connRoom[c])
          /\ OnError(c) =>
                /\ UNCHANGED hub
                /\ c \in RegisteredIn(gameConnections', connRoom[c])
      ]_vars

\* A connection has had an error event and is still registered under its
\* room, and is still open.
C13_Witness ==
    /\ last.op = "error"
    /\ \E c \in Conns :
          /\ readyState[c] = "OPEN"
          /\ connRoom[c] = last.gameId
          /\ c \in Registered(last.gameId)

\* C14: a reset of a stored room, whatever its state (won and full boards
\* included), stores the fresh state in its place and returns it; a reset
\* without a room id is answered 400 "roomId is required" whatever the store
\* holds, the store neither read into the answer nor written; a reset of an
\* id the store does not hold is answered 404 "Game not found" and the store
\* is unchanged.
C14_Reset ==
    [][ last'.op = "reset" =>
          LET roomId == last'.gameId
          IN  IF roomId = NoId
              THEN /\ last'.status = 400
                   /\ last'.error = "roomId is required"
                   /\ last'.room = NoRoom
                   /\ store' = store /\ writes' = 0
              ELSE IF roomId \in DOMAIN store
              THEN /\ last'.status = 200
                   /\ last'.room = FreshState
                   /\ store' = [store EXCEPT ![roomId] = FreshState]
              ELSE /\ last'.status = 404
                   /\ last'.error = "Game not found"
                   /\ last'.room = NoRoom
                   /\ store' = store /\ writes' = 0
      ]_vars

\* A reset has been answered with the fresh state and the store holds it.
C14_Witness ==
    /\ last.op = "reset"
    /\ last.status = 200
    /\ last.room = FreshState
    /\ last.gameId \in DOMAIN store
    /\ store[last.gameId] = FreshState

\* C15: every create answers 200 with an id that was never issued before and
\* that the store does not hold, and adds exactly one room to the store, under
\* that id, with 9 empty cells, X to move and won false, the other rooms as
\* they were; a get of that id right after the create returns this state.
C15_CreateFresh ==
    [][ /\ last'.op = "create" =>
              LET roomId == last'.gameId
              IN  /\ last'.status = 200
                  /\ roomId \notin issued
                  /\ roomId \notin DOMAIN store
                  /\ DOMAIN store' = DOMAIN store \cup {roomId}
                  /\ store'[roomId] =
                        [board |-> [i \in 0..8 |-> "null"],
                         currentPlayer |-> "X", won |-> FALSE]
                  /\ \A g \in DOMAIN store : store'[g] = store[g]
        /\ (last.op = "create" /\ last'.op = "get"
              /\ last'.gameId = last.gameId) =>
              /\ last'.status = 200
              /\ last'.room =
                    [board |-> [i \in 0..8 |-> "null"],
                     currentPlayer |-> "X", won |-> FALSE]
      ]_vars

\* A room has been created next to a room in play, and a get right after the
\* create has returned the fresh state.
C15_Witness ==
    /\ last.op = "get"
    /\ last.status = 200
    /\ last.room = FreshState
    /\ \E g \in DOMAIN store : g # last.gameId /\ store[g] # FreshState

\* The ids of the rooms that were created and then deleted.
Deleted == issued \ DOMAIN store

\* C16: a delete of a stored room removes that room alone from the store and
\* answers 200 "Game deleted"; a delete of an id the store does not hold
\* answers 404 "Game not found" and leaves the store unchanged; and once a
\* room is deleted, whatever is done to other rooms, its id stays out of the
\* store, every get, move, reset and delete on it is answered 404 "Game not
\* found", and no list has an entry for it.
C16_DeleteIsFinal ==
    [][ /\ last'.op = "delete" =>
              LET gameId == last'.gameId
              IN  IF gameId \in DOMAIN store
                  THEN /\ last'.status = 200
                       /\ last'.error = "Game deleted"
                       /\ store' = [g \in DOMAIN store \ {gameId} |-> store[g]]
                       /\ gameId \in Deleted'
                  ELSE /\ last'.status = 404
                       /\ last'.error = "Game not found"
                       /\ store' = store
        /\ \A g \in Deleted :
              /\ g \in Deleted'
              /\ (last'.op \in {"get", "makeMove", "reset", "delete"}
                    /\ last'.gameId = g) =>
                    /\ last'.status = 404
                    /\ last'.error = "Game not found"
              /\ last'.op = "list" =>
                    \A entry \in last'.games : entry.room # g
      ]_vars

\* A move on a deleted room has been answered 404 while another room is in
\* play.
C16_Witness ==
    /\ last.op = "makeMove"
    /\ last.status = 404
    /\ last.gameId \in Deleted
    /\ \E g \in DOMAIN store : store[g] # FreshState

\* C17: in every step that is not a reset of the room, a cell of a room
\* stored before and after the step changes only from empty to a mark: a
\* cell that holds X or O holds the same mark after the step.
C17_MarksStay ==
    [][ \A g \in DOMAIN store \cap DOMAIN store' :
          (last'.op = "reset" /\ last'.gameId = g /\ last'.status = 200)
          \/ \A i \in Cells :
                store'[g].board[i] # store[g].board[i] =>
                   /\ store[g].board[i] = "null"
                   /\ store'[g].board[i] \in Players
      ]_vars

\* A move on an occupied cell of a board with marks of both players has been
\* rejected, the board not won.
C17_Witness ==
    /\ last.op = "makeMove"
    /\ last.error = "Position is already occupied"
    /\ last.gameId \in DOMAIN store
    /\ ~store[last.gameId].won
    /\ Cardinality(Marks(store[last.gameId].board)) >= 4

\* C18: for every board of 9 cells over empty, X and O, checkWinner returns
\* a boolean, true exactly when one of the 8 lines (3 rows, 3 columns, 2
\* diagonals) holds three identical marks; it returns false on the empty
\* board.
C18_CheckWinner ==
    last.op = "checkWinner" =>
       LET board == last.room.board
       IN  /\ last.room.won \in BOOLEAN
           /\ last.room.won = UniformLine(board)
           /\ (\A i \in 0..8 : board[i] = "null") => last.room.won = FALSE

\* checkWinner has returned true on a full board whose only line of three
\* identical marks is the diagonal 2, 4, 6.
C18_Witness ==
    /\ last.op = "checkWinner"
    /\ last.room.won = TRUE
    /\ \A i \in Cells : last.room.board[i] # "null"
    /\ \A L \in Lines :
          (\E m \in Players : \A i \in L : last.room.board[i] = m)
             <=> L = {2, 4, 6}

\* C19: when the write of games.json fails after an accepted move or a
\* reset, the request is still answered 200 with the new state (the mark
\* placed and the player flipped, or the fresh state), and the store keeps
\* what it held, so that after a failed save of a move the state answered
\* differs from the stored one, which is what a get returns.
C19_FailedSaveStillAnswers ==
    [][ /\ \A g \in RoomIds, p \in SysPositions :
              (MakeMove(g, p, FALSE) /\ last'.status = 200) =>
                 /\ writes' = 1
                 /\ store' = store
                 /\ last'.room.board =
                       [store[g].board EXCEPT ![Index(p)] =
                                                 store[g].currentPlayer]
                 /\ last'.room.currentPlayer = Other(store[g].currentPlayer)
                 /\ last'.room # store'[g]
        /\ \A g \in RoomIds :
              (Reset(g, FALSE) /\ last'.status = 200) =>
                 /\ writes' = 1
                 /\ store' = store
                 /\ last'.room = FreshState
        /\ (last'.op = "get" /\ last'.status = 200) =>
              last'.room = store[last'.gameId]
      ]_vars

\* A get has returned a state with fewer marks than were answered 200: the
\* save of an accepted move has failed.
C19_Witness ==
    /\ last.op = "get"
    /\ last.status = 200
    /\ \E mark \in acked[last.gameId] : last.room.board[mark[1]] = "null"

\* C20: a get and a list leave the store and the hub as they are, write
\* nothing and send nothing to any connection; a get answers 200 with the
\* stored state of the room, or 404 "Game not found" when the store does not
\* hold the id; a list answers 200 with one entry per stored room, holding
\* its id, board, currentPlayer and won; and a get or list that repeats the
\* request before it returns the same answer.
C20_ReadsAreReadOnly ==
    [][ /\ last'.op \in {"get", "list"} =>
              /\ store' = store
              /\ UNCHANGED hub
              /\ issued' = issued
              /\ writes' = 0
              /\ \A c \in Conns : sent'[c] = <<>>
        /\ last'.op = "get" =>
              IF last'.gameId \in DOMAIN store
              THEN last'.status = 200 /\ last'.room = store[last'.gameId]
              ELSE /\ last'.status = 404
                   /\ last'.error = "Game not found"
                   /\ last'.room = NoRoom
        /\ last'.op = "list" =>
              /\ last'.status = 200
              /\ Cardinality(last'.games) = Cardinality(DOMAIN store)
              /\ \A g \in DOMAIN store :
                    [room |-> g, board |-> store[g].board,
                     currentPlayer |-> store[g].currentPlayer,
                     won |-> store[g].won] \in last'.games
        /\ (last'.op \in {"get", "list"} /\ last.op = last'.op
              /\ last.gameId = last'.gameId) => last' = last
      ]_vars

\* A list has returned two entries, one of them a won room, while a
\* connection is open on that room.
C20_Witness ==
    /\ last.op = "list"
    /\ Cardinality(last.games) = 2
    /\ \E entry \in last.games :
          /\ entry.won
          /\ \E c \in Registered(entry.room) : readyState[c] = "OPEN"

\* The cells of the board that hold the mark.
CellsOf(board, mark) == {i \in Cells : board[i] = mark}

\* The lines of the board that hold three times the mark.
LinesOf(board, mark) == {L \in Lines : \A i \in L : board[i] = mark}

\* C21: in every reachable state, on the board of every stored room, the
\* number of X marks minus the number of O marks is 0 or 1, and the current
\* player is X exactly when the two numbers are equal, O exactly when X has
\* one mark more.
C21_TurnFollowsCounts ==
    \A g \in DOMAIN store :
       LET xs == Cardinality(CellsOf(store[g].board, "X"))
           os == Cardinality(CellsOf(store[g].board, "O"))
       IN  /\ xs - os \in {0, 1}
           /\ store[g].currentPlayer = "X" <=> xs = os
           /\ store[g].currentPlayer = "O" <=> xs = os + 1

\* A full board is stored: five X, four O, and O is the current player.
C21_Witness ==
    \E g \in DOMAIN store :
       /\ Cardinality(CellsOf(store[g].board, "X")) = 5
       /\ Cardinality(CellsOf(store[g].board, "O")) = 4
       /\ store[g].currentPlayer = "O"

\* C22: in every reachable state, a stored room whose won flag is true has
\* on its board only lines of three marks of the player who is not the
\* current player, and no stored board holds a line of X together with a
\* line of O.
C22_WinnerMovedLast ==
    \A g \in DOMAIN store :
       /\ store[g].won =>
             LinesOf(store[g].board, store[g].currentPlayer) = {}
       /\ ~ (/\ LinesOf(store[g].board, "X") # {}
             /\ LinesOf(store[g].board, "O") # {})

\* A won room is stored whose last move completed two lines at once.
C22_Witness ==
    \E g \in DOMAIN store :
       /\ store[g].won
       /\ Cardinality(LinesOf(store[g].board,
                              Other(store[g].currentPlayer))) = 2

\* C23: every create, move, reset and delete leaves every room other than
\* the one it targets as it was: stored with the same state, or not stored;
\* and a move or a reset sends nothing to a connection registered under
\* another room id.
C23_OtherRoomsUntouched ==
    [][ /\ last'.op \in {"create", "makeMove", "reset", "delete"} =>
              \A g \in RoomIds \ {last'.gameId} :
                 /\ g \in DOMAIN store' <=> g \in DOMAIN store
                 /\ g \in DOMAIN store => store'[g] = store[g]
        /\ last'.op \in {"makeMove", "reset"} =>
              \A g \in RoomIds \ {last'.gameId} :
                 \A c \in Registered(g) : sent'[c] = <<>>
      ]_vars

\* A move on one room has been accepted and sent to its open connection,
\* while another room holds a mark and has an open connection of its own.
C23_Witness ==
    /\ last.op = "makeMove"
    /\ last.status = 200
    /\ \E c \in Registered(last.gameId) : sent[c] # <<>>
    /\ \E g \in DOMAIN store \ {last.gameId} :
          /\ store[g] # FreshState
          /\ \E c \in Registered(g) : readyState[c] = "OPEN"

\* C24: a delete sends nothing to any connection and leaves the hub as it
\* is, the connections of the deleted room still registered under its id;
\* and the entry of a room id leaves the hub only in the close callback of a
\* connection of that room.
C24_DeleteKeepsObservers ==
    [][ /\ last'.op = "delete" =>
              /\ \A c \in Conns : sent'[c] = <<>>
              /\ UNCHANGED hub
              /\ Registered(last'.gameId) =
                    RegisteredIn(gameConnections', last'.gameId)
        /\ \A g \in DOMAIN gameConnections :
              g \notin DOMAIN gameConnections' =>
                 last'.op = "close" /\ last'.gameId = g
      ]_vars

\* A room has been deleted while an open connection is registered under its
\* id, and the connection is still registered.
C24_Witness ==
    /\ last.op = "delete"
    /\ last.status = 200
    /\ last.gameId \notin DOMAIN store
    /\ \E c \in Registered(last.gameId) : readyState[c] = "OPEN"

====
